---------------------------- MODULE Spec2Model ----------------------------
(***************************************************************************)
(* Model of the loan ETL pipeline of src/etl_pipeline.py:                  *)
(*   extract_data -> validate_data -> transform_data -> load_data_to_sqlite *)
(* as run once by main().                                                  *)
(*                                                                         *)
(* A DataFrame is a record [cols, dtype, rows]: the set of column names,   *)
(* the inferred dtype of each column ("number", "object", "bool",          *)
(* "category") and the sequence of rows, each a function from cols to a    *)
(* cell.  A cell is a tagged record: Num(n), Str(s), Bool(b), Null (NaN /  *)
(* None), Frac(n, d) for the quotient n/d of a float division, and Sym(s)  *)
(* for a value that depends on an unseeded random draw or the wall clock.  *)
(* Exchange rates are kept in tenths: Num(13) is the rate 1.3.             *)
(***************************************************************************)
EXTENDS Integers, Sequences, FiniteSets, TLC

VARIABLES
    pc,      \* position of main(): which stage runs next, or how the run ended
    df,      \* the DataFrame handed from stage to stage
    prev,    \* the DataFrame that entered the stage that ran last
    src,     \* outcome of each external source of this run (file, APIs, store)
    store,   \* the SQLite file at db_path: table loans and idx_credit_score
    prior,   \* the store's contents when the run started
    log      \* the stages that announced themselves through logging.info

vars == <<pc, df, prev, src, store, prior, log>>

-----------------------------------------------------------------------------
(* Cells *)

Null == [t |-> "null", v |-> 0]

Num(n) == [t |-> "num", v |-> n]

Str(s) == [t |-> "str", v |-> s]

Bool(b) == [t |-> "bool", v |-> b]

Frac(n, d) == [t |-> "frac", n |-> n, d |-> d]

Sym(s) == [t |-> "sym", v |-> s]

IsNull(c) == c.t = "null"

-----------------------------------------------------------------------------
(* DataFrames *)

\* pd.DataFrame(): no columns, no rows
EmptyFrame == [cols |-> {}, dtype |-> [c \in {} |-> "object"], rows |-> <<>>]

Frame(cols, dtype, rows) == [cols |-> cols, dtype |-> dtype, rows |-> rows]

Indices(d) == 1..Len(d.rows)

\* a row re-indexed on the column set C; columns it lacks are NaN
Reindex(r, C) == [c \in C |-> IF c \in DOMAIN r THEN r[c] ELSE Null]

\* a row cut down to the columns C
Project(r, C) == [c \in C |-> r[c]]

\* every row of a sequence re-indexed on C
ReindexAll(rows, C) == [i \in 1..Len(rows) |-> Reindex(rows[i], C)]

\* df[c] = scalar: the value is broadcast to every row
SetScalar(d, c, cell, ty) ==
    LET C == d.cols \cup {c}
    IN  [cols  |-> C,
         dtype |-> [x \in C |-> IF x = c THEN ty ELSE d.dtype[x]],
         rows  |-> [i \in Indices(d) |->
                      [x \in C |-> IF x = c THEN cell ELSE d.rows[i][x]]]]

\* df[c] = Series: cells[i] is the value of row i
SetColumn(d, c, cells, ty) ==
    LET C == d.cols \cup {c}
    IN  [cols  |-> C,
         dtype |-> [x \in C |-> IF x = c THEN ty ELSE d.dtype[x]],
         rows  |-> [i \in Indices(d) |->
                      [x \in C |-> IF x = c THEN cells[i] ELSE d.rows[i][x]]]]

\* df.select_dtypes(include=[...]).columns
SelectDtypes(d, kinds) == {c \in d.cols : d.dtype[c] \in kinds}


-----------------------------------------------------------------------------
(* Bounds and input universe *)

\* longest primary file, in rows, of the exhaustive validate inputs
MaxRows == 3

\* most loads of one store that are followed
MaxLoads == 3

\* line 15: 1.3, in tenths
DEFAULT_EXCHANGE_RATE == 13

\* the CAD rate the exchange-rate service answers with (1.4, in tenths)
FetchedRates == {14}

Row3(i, c, s) == [income |-> i, credit_score |-> c, loan_status |-> s]

StdDtype == [income |-> "number", credit_score |-> "number", loan_status |-> "object"]

StdCols == {"income", "credit_score", "loan_status"}

\* the three-row file of the end-to-end scenario
ScenarioFile ==
    Frame(StdCols, StdDtype,
          <<Row3(Num(30000), Num(580), Str("Denied")),
            Row3(Num(60000), Num(680), Str("Approved")),
            Row3(Num(90000), Num(800), Str("Approved"))>>)

\* a repeated record, and a record that differs from it only in a missing income
GappyFile ==
    Frame(StdCols, StdDtype,
          <<Row3(Num(40000), Num(600), Str("Approved")),
            Row3(Null, Num(600), Str("Approved")),
            Row3(Num(40000), Num(600), Str("Approved")),
            Row3(Num(40000), Null, Str("Denied"))>>)

\* loan_status read as booleans (a file of True/False)
BoolStatusFile ==
    Frame(StdCols, [StdDtype EXCEPT !["loan_status"] = "bool"],
          <<Row3(Num(30000), Num(750), Bool(TRUE)),
            Row3(Num(60000), Num(300), Bool(FALSE))>>)

\* loan_status already numeric
NumStatusFile ==
    Frame(StdCols, [StdDtype EXCEPT !["loan_status"] = "number"],
          <<Row3(Num(30000), Num(850), Num(1)),
            Row3(Num(60000), Num(599), Num(0))>>)

NoScoreFile ==
    Frame({"income", "loan_status"},
          [income |-> "number", loan_status |-> "object"],
          <<[income |-> Num(30000), loan_status |-> Str("Denied")],
            [income |-> Num(60000), loan_status |-> Str("Approved")]>>)

NoIncomeFile ==
    Frame({"credit_score", "loan_status"},
          [credit_score |-> "number", loan_status |-> "object"],
          <<[credit_score |-> Num(580), loan_status |-> Str("Denied")]>>)

NoStatusFile ==
    Frame({"income", "credit_score"},
          [income |-> "number", credit_score |-> "number"],
          <<[income |-> Num(30000), credit_score |-> Num(580)],
            [income |-> Num(30000), credit_score |-> Num(580)]>>)

FileData ==
    {ScenarioFile, GappyFile, BoolStatusFile, NumStatusFile,
     NoScoreFile, NoIncomeFile, NoStatusFile}

\* read_csv either parses the file or raises
FileOutcomes ==
    {[ok |-> TRUE, data |-> f] : f \in FileData} \cup {[ok |-> FALSE, data |-> EmptyFrame]}

\* two registry records carrying a column the file lacks
RegistryRecords ==
    Frame(StdCols \cup {"region"},
          [income |-> "number", credit_score |-> "number",
           loan_status |-> "object", region |-> "object"],
          <<[income |-> Num(50000), credit_score |-> Num(720),
             loan_status |-> Str("Approved"), region |-> Str("West")],
            [income |-> Num(20000), credit_score |-> Num(450),
             loan_status |-> Str("Denied"), region |-> Str("East")]>>)

\* absent: no url given; ok: 200 and a parsable body; status: a non-200 answer;
\* throws: requests.get raises; badbody: 200 but response.json() raises
LoanOutcomes ==
    {[kind |-> k, data |-> IF k = "ok" THEN RegistryRecords ELSE EmptyFrame] :
        k \in {"absent", "ok", "status", "throws", "badbody"}}

\* ok: 200 and rates.CAD given; nocad: 200, rates without CAD; norates: 200, no
\* rates key; the rest as for the registry
FxOutcomes ==
    {[kind |-> "ok", rate |-> r] : r \in FetchedRates} \cup
    {[kind |-> k, rate |-> 0] :
        k \in {"absent", "nocad", "norates", "status", "throws", "badbody"}}

-----------------------------------------------------------------------------
(* extract_data *)

\* dtype of column c of pd.concat([a, b]): a frame without rows has no say, a
\* frame with rows that lacks the column contributes NaN
ConcatDtype(a, b, c) ==
    LET live == {d \in {a, b} : Len(d.rows) > 0}
        has  == {d.dtype[c] : d \in {d \in live : c \in d.cols}}
        gap  == \E d \in live : c \notin d.cols
    IN  IF has = {}
          THEN IF c \in a.cols THEN a.dtype[c] ELSE b.dtype[c]
          ELSE IF has = {"number"} THEN "number"
          ELSE IF has = {"bool"} /\ ~gap THEN "bool"
          ELSE IF has = {"category"} /\ ~gap THEN "category"
          ELSE "object"

\* pd.concat([a, b], ignore_index=True): rows of a then rows of b, on the union
\* of the columns
Concat(a, b) ==
    LET C == a.cols \cup b.cols
    IN  [cols  |-> C,
         dtype |-> [c \in C |-> ConcatDtype(a, b, c)],
         rows  |-> ReindexAll(a.rows, C) \o ReindexAll(b.rows, C)]

\* lines 29-34: the file read, an empty frame when it raises
ReadCsv(f) == IF f.ok THEN f.data ELSE EmptyFrame

\* the registry block without its except clause
LoanBlockUncaught(d, l) ==
    [raised |-> l.kind \in {"throws", "badbody"},
     df     |-> IF l.kind = "ok" THEN Concat(d, l.data) ELSE d]

\* lines 36-44: the registry block; whatever raises inside is caught and logged
LoanBlock(d, l) ==
    [raised |-> FALSE,
     df     |-> IF l.kind = "ok" THEN Concat(d, l.data) ELSE d]

\* lines 46-55: the exchange-rate block.  A 200 answer sets the column from
\* rates.get('CAD', default); an exception sets the default; a non-200 answer
\* falls through both branches
FxBlock(d, x) ==
    [raised |-> FALSE,
     df     |-> CASE x.kind = "ok"      -> SetScalar(d, "exchange_rate", Num(x.rate), "number")
                  [] x.kind = "nocad"   -> SetScalar(d, "exchange_rate", Num(DEFAULT_EXCHANGE_RATE), "number")
                  [] x.kind \in {"throws", "badbody", "norates"}
                                        -> SetScalar(d, "exchange_rate", Num(DEFAULT_EXCHANGE_RATE), "number")
                  [] OTHER              -> d]

extract_data(f, l, x) ==
    LET a == LoanBlock(ReadCsv(f), l)
        b == FxBlock(a.df, x)
    IN  IF a.raised THEN a ELSE b

-----------------------------------------------------------------------------
(* validate_data *)

\* df.drop_duplicates(): the first of each group of equal rows is kept, in
\* order; NaN equals NaN
RECURSIVE DropDuplicates(_)
DropDuplicates(rows) ==
    IF rows = <<>> THEN <<>>
    ELSE LET n     == Len(rows)
             front == DropDuplicates(SubSeq(rows, 1, n - 1))
         IN  IF \E i \in 1..(n - 1) : rows[i] = rows[n]
               THEN front
               ELSE Append(front, rows[n])

\* the non-missing values of column c, in row order
RECURSIVE ColumnValues(_, _)
ColumnValues(rows, c) ==
    IF rows = <<>> THEN <<>>
    ELSE LET n     == Len(rows)
             front == ColumnValues(SubSeq(rows, 1, n - 1), c)
         IN  IF rows[n][c].t = "num" THEN Append(front, rows[n][c].v) ELSE front

\* insertion of x into the ascending sequence s
RECURSIVE Insert(_, _)
Insert(s, x) ==
    IF s = <<>> THEN <<x>>
    ELSE IF x <= Head(s) THEN <<x>> \o s
    ELSE <<Head(s)>> \o Insert(Tail(s), x)

RECURSIVE Sorted(_)
Sorted(s) == IF s = <<>> THEN <<>> ELSE Insert(Sorted(Tail(s)), Head(s))

\* a median that takes the lower middle value of an even count
MedianLow(vals) ==
    LET s == Sorted(vals)
        n == Len(s)
    IN  IF n = 0 THEN Null ELSE Num(s[(n + 1) \div 2])

\* Series.median(): NaN skipped; the middle value, or the mean of the two
\* middle values; NaN for a column without values
Median(vals) ==
    LET s == Sorted(vals)
        n == Len(s)
    IN  IF n = 0 THEN Null
        ELSE IF n % 2 = 1 THEN Num(s[(n + 1) \div 2])
        ELSE LET two == s[n \div 2] + s[n \div 2 + 1]
             IN  IF two % 2 = 0 THEN Num(two \div 2) ELSE Frac(two, 2)

\* df[numeric_cols].fillna(df[numeric_cols].median())
FillNa(rows, numeric) ==
    [i \in 1..Len(rows) |->
        [c \in DOMAIN rows[i] |->
            IF c \in numeric /\ IsNull(rows[i][c])
              THEN Median(ColumnValues(rows, c))
              ELSE rows[i][c]]]

\* line 72: df[numeric_cols + categorical_cols]
KeptColumns(d) == SelectDtypes(d, {"number"}) \cup SelectDtypes(d, {"object"})

validate_data(d) ==
    LET dd     == [d EXCEPT !.rows = DropDuplicates(d.rows)]
        filled == FillNa(dd.rows, SelectDtypes(dd, {"number"}))
        keep   == KeptColumns(dd)
    IN  [cols  |-> keep,
         dtype |-> [c \in keep |-> dd.dtype[c]],
         rows  |-> [i \in 1..Len(filled) |-> Project(filled[i], keep)]]

-----------------------------------------------------------------------------
(* transform_data *)

\* line 89: Series.map({'Approved': 1, 'Denied': 0}); any other value is NaN
MapStatus(cell) ==
    IF cell = Str("Approved") THEN Num(1)
    ELSE IF cell = Str("Denied") THEN Num(0)
    ELSE Null

\* the strings of the model in the order LabelEncoder sorts them
SortedStrs == <<"Approved", "Denied", "East", "False", "True", "West", "nan">>

StrRank(s) == CHOOSE i \in 1..Len(SortedStrs) : SortedStrs[i] = s

\* astype(str)
AsStr(cell) ==
    CASE cell.t = "str"  -> cell.v
      [] cell.t = "bool" -> IF cell.v THEN "True" ELSE "False"
      [] OTHER           -> "nan"

\* LabelEncoder().fit_transform: the position of the value among the sorted
\* distinct values of the column
LabelEncode(rows, c, cell) ==
    LET present == {AsStr(rows[i][c]) : i \in 1..Len(rows)}
    IN  Num(Cardinality({u \in present : StrRank(u) < StrRank(AsStr(cell))}))

\* lines 88-100: the outcome column mapped, every other object column encoded
EncodeColumns(d) ==
    LET status == "loan_status" \in d.cols /\ d.dtype["loan_status"] = "object"
        coded  == SelectDtypes(d, {"object"}) \ {"loan_status"}
    IN  [cols  |-> d.cols,
         dtype |-> [c \in d.cols |->
                      IF (c = "loan_status" /\ status) \/ c \in coded
                        THEN "number" ELSE d.dtype[c]],
         rows  |-> [i \in Indices(d) |->
                      [c \in d.cols |->
                         IF c = "loan_status" /\ status THEN MapStatus(d.rows[i][c])
                         ELSE IF c \in coded THEN LabelEncode(d.rows, c, d.rows[i][c])
                         ELSE d.rows[i][c]]]]

\* a numeric cell as a quotient: its numerator and its denominator
IsNumeric(cell) == cell.t \in {"num", "frac"}

NumerOf(cell) == IF cell.t = "frac" THEN cell.n ELSE cell.v

DenomOf(cell) == IF cell.t = "frac" THEN cell.d ELSE 1

\* line 106: income / exchange_rate, the rate being in tenths
IncomeUsd(r) ==
    IF IsNumeric(r["income"]) /\ IsNumeric(r["exchange_rate"])
      THEN Frac(NumerOf(r["income"]) * 10 * DenomOf(r["exchange_rate"]),
                DenomOf(r["income"]) * NumerOf(r["exchange_rate"]))
      ELSE Null

\* a metric computed from a column and a random draw: NaN where the column is
Derived(cell, expr) == IF IsNumeric(cell) THEN Sym(expr) ELSE Null

\* line 116: pd.cut(credit_score, bins=[300, 600, 750, 850], labels=[...]),
\* whose intervals are closed on the right: (300, 600], (600, 750], (750, 850]
Cut(score) ==
    IF ~IsNumeric(score) THEN Null
    ELSE LET n == NumerOf(score)
             d == DenomOf(score)
         IN  IF 300 * d < n /\ n <= 600 * d THEN Str("Low")
             ELSE IF 600 * d < n /\ n <= 750 * d THEN Str("Medium")
             ELSE IF 750 * d < n /\ n <= 850 * d THEN Str("High")
             ELSE Null

\* the columns whose lookup raises KeyError when they are absent
RequiredColumns == {"income", "exchange_rate", "credit_score"}

\* lines 106-122 on a frame that has the required columns
AddMetrics(d) ==
    LET I  == Indices(d)
        d1 == SetColumn(d,  "income_usd", [i \in I |-> IncomeUsd(d.rows[i])], "number")
        d2 == SetScalar(d1, "loan_income_ratio", Sym("U(0.2,0.8)"), "number")
        d3 == SetColumn(d2, "debt_service_ratio",
                        [i \in I |-> Derived(d.rows[i]["income"], "income/U(10000,50000)")],
                        "number")
        d4 == SetScalar(d3, "loan_to_value_ratio", Sym("U(0.5,1.5)"), "number")
        d5 == SetColumn(d4, "net_worth",
                        [i \in I |-> Derived(d.rows[i]["income"], "income-U(5000,25000)")],
                        "number")
        d6 == SetScalar(d5, "timestamp", Sym("now"), "object")
        d7 == SetColumn(d6, "credit_score_category",
                        [i \in I |-> Cut(d.rows[i]["credit_score"])], "category")
        d8 == SetColumn(d7, "default_probability",
                        [i \in I |-> Derived(d.rows[i]["credit_score"],
                                             "1/(1+exp(-(score-700)/50))")],
                        "number")
        d9 == SetColumn(d8, "expected_loss",
                        [i \in I |-> Derived(d.rows[i]["credit_score"],
                                             "default_probability*U(5000,50000)")],
                        "number")
        dA == SetColumn(d9, "sharpe_ratio",
                        [i \in I |-> Derived(d.rows[i]["income"],
                                             "(income-U(1000,5000))/U(500,2000)")],
                        "number")
    IN  SetScalar(dA, "value_at_risk", Sym("-1.65*U(1000,10000)"), "number")

\* the stage raises KeyError at the first absent column it indexes
transform_data(d) ==
    LET e == EncodeColumns(d)
    IN  IF RequiredColumns \subseteq e.cols
          THEN [raised |-> FALSE, df |-> AddMetrics(e)]
          ELSE [raised |-> TRUE,  df |-> d]

-----------------------------------------------------------------------------
(* load_data_to_sqlite *)

\* a database file without the table loans
NoTable == [exists |-> FALSE, cols |-> {}, rows |-> <<>>, index |-> FALSE]

\* the value SQLite stores for a cell: booleans become integers, NaN and None
\* become NULL, a category its label
SqlValue(cell) ==
    IF cell.t = "bool" THEN Num(IF cell.v THEN 1 ELSE 0) ELSE cell

SqlRows(rows) == [i \in 1..Len(rows) |-> [c \in DOMAIN rows[i] |-> SqlValue(rows[i][c])]]

\* to_sql with if_exists='append': the rows are added to the table found
ToSqlAppend(st, d) ==
    LET C == st.cols \cup d.cols
    IN  [exists |-> TRUE, cols |-> C,
         rows   |-> ReindexAll(st.rows, C) \o ReindexAll(SqlRows(d.rows), C),
         index  |-> st.index]

\* line 130: df.to_sql('loans', conn, if_exists='replace', index=False), for a
\* frame with at least one column.  The old table is dropped, and its indexes
\* with it; the new one is created from the frame's columns and filled; to_sql
\* commits its own transaction.
ToSql(st, d) ==
    [exists |-> TRUE, cols |-> d.cols, rows |-> SqlRows(d.rows), index |-> FALSE]

\* line 131: CREATE INDEX IF NOT EXISTS idx_credit_score ON loans (credit_score)
CreateIndex(st) ==
    IF "credit_score" \in st.cols
      THEN [raised |-> FALSE, store |-> [st EXCEPT !.index = TRUE]]
      ELSE [raised |-> TRUE,  store |-> st]

\* db: "ok", "unopenable" (sqlite3.connect raises) or "readonly" (the first
\* write raises); nothing catches, nothing rolls back
load_data_to_sqlite(st, d, db) ==
    IF db # "ok" THEN [raised |-> TRUE, store |-> st]
    ELSE CreateIndex(ToSql(st, d))

-----------------------------------------------------------------------------
(* main *)

Stages == <<"extract", "validate", "transform", "load">>

DbStates == {"ok", "unopenable", "readonly"}

\* what an earlier run may have left at db_path
OldTable ==
    [exists |-> TRUE, cols |-> {"credit_score"},
     rows |-> <<[credit_score |-> Num(700)]>>, index |-> TRUE]

PriorStores == {NoTable, OldTable}

NoSource ==
    [file |-> [ok |-> FALSE, data |-> EmptyFrame],
     loan |-> [kind |-> "absent", data |-> EmptyFrame],
     fx   |-> [kind |-> "absent", rate |-> 0]]

\* a main() that catches what a stage raises and carries on
AfterSwallowed(raised, next) == next

\* where main() stands after a stage that raised or returned
After(raised, next) == IF raised THEN "aborted" ELSE next

Init ==
    /\ pc = "start"
    /\ df = EmptyFrame
    /\ prev = EmptyFrame
    /\ \E db \in DbStates :
         src = [file |-> NoSource.file, loan |-> NoSource.loan, fx |-> NoSource.fx, db |-> db]
    /\ store \in PriorStores
    /\ prior = store
    /\ log = <<>>

\* line 137
Extract ==
    /\ pc = "start"
    /\ \E f \in FileOutcomes, l \in LoanOutcomes, x \in FxOutcomes :
         LET r == extract_data(f, l, x)
         IN  /\ src' = [src EXCEPT !.file = f, !.loan = l, !.fx = x]
             /\ df' = r.df
             /\ pc' = After(r.raised, "extracted")
    /\ prev' = df
    /\ log' = Append(log, "extract")
    /\ UNCHANGED <<store, prior>>

\* line 138
Validate ==
    /\ pc = "extracted"
    /\ df' = validate_data(df)
    /\ prev' = df
    /\ pc' = "validated"
    /\ log' = Append(log, "validate")
    /\ UNCHANGED <<src, store, prior>>

\* line 139
Transform ==
    /\ pc = "validated"
    /\ LET r == transform_data(df)
       IN  /\ df' = r.df
           /\ pc' = After(r.raised, "transformed")
    /\ prev' = df
    /\ log' = Append(log, "transform")
    /\ UNCHANGED <<src, store, prior>>

\* lines 140-141
Load ==
    /\ pc = "transformed"
    /\ LET r == load_data_to_sqlite(store, df, src.db)
       IN  /\ store' = r.store
           /\ pc' = After(r.raised, "done")
    /\ prev' = df
    /\ log' = Append(log, "load")
    /\ UNCHANGED <<df, src, prior>>

Next == Extract \/ Validate \/ Transform \/ Load

Spec == Init /\ [][Next]_vars

-----------------------------------------------------------------------------
(* validate_data on every small dataset *)

IncomeCells == {Null, Num(30000), Num(60000)}

\* the cells a loan_status column of each inferred dtype can hold
StatusCells(ty) ==
    CASE ty = "object" -> {Null, Str("Approved"), Str("Denied")}
      [] ty = "bool"   -> {Bool(TRUE), Bool(FALSE)}
      [] OTHER         -> {Null, Num(0), Num(1)}

ValidateInputs ==
    UNION {
      {Frame({"income", "loan_status"},
             [income |-> "number", loan_status |-> ty], rows) :
         rows \in UNION {[1..n -> {[income |-> i, loan_status |-> s] :
                                     i \in IncomeCells, s \in StatusCells(ty)}] :
                           n \in 0..MaxRows}} :
      ty \in {"object", "bool", "number"}}

InitValidate ==
    /\ pc = "extracted"
    /\ df \in ValidateInputs
    /\ prev = EmptyFrame
    /\ src = [file |-> NoSource.file, loan |-> NoSource.loan, fx |-> NoSource.fx, db |-> "ok"]
    /\ store = NoTable
    /\ prior = NoTable
    /\ log = <<"extract">>

SpecValidate == InitValidate /\ [][Validate]_vars

-----------------------------------------------------------------------------
(* transform_data on every credit score *)

\* the outer edges of the bins of line 116
ScoreLo == 300

ScoreHi == 850

\* how far beyond the edges the scores tried reach
Margin == 5

ScoreFrame(cell) ==
    Frame({"income", "credit_score", "exchange_rate"},
          [income |-> "number", credit_score |-> "number", exchange_rate |-> "number"],
          <<[income |-> Num(30000), credit_score |-> cell,
             exchange_rate |-> Num(DEFAULT_EXCHANGE_RATE)]>>)

InitCut ==
    /\ pc = "validated"
    /\ \E s \in (ScoreLo - Margin)..(ScoreHi + Margin) : df = ScoreFrame(Num(s))
    /\ prev = EmptyFrame
    /\ src = [file |-> NoSource.file, loan |-> NoSource.loan, fx |-> NoSource.fx, db |-> "ok"]
    /\ store = NoTable
    /\ prior = NoTable
    /\ log = <<"extract", "validate">>

SpecCut == InitCut /\ [][Transform]_vars

-----------------------------------------------------------------------------
(* load_data_to_sqlite called again and again on one store *)

LoadFrames ==
    {Frame({"credit_score", "income"},
           [credit_score |-> "number", income |-> "number"],
           <<[credit_score |-> Num(580), income |-> Num(30000)]>>),
     Frame({"credit_score", "flag"},
           [credit_score |-> "number", flag |-> "bool"],
           <<[credit_score |-> Num(680), flag |-> Bool(TRUE)],
             [credit_score |-> Null, flag |-> Bool(FALSE)]>>),
     Frame({"income"}, [income |-> "number"],
           <<[income |-> Num(30000)], [income |-> Num(60000)]>>)}

InitLoad ==
    /\ pc = "transformed"
    /\ df \in LoadFrames
    /\ prev = EmptyFrame
    /\ \E db \in DbStates :
         src = [file |-> NoSource.file, loan |-> NoSource.loan, fx |-> NoSource.fx, db |-> db]
    /\ store \in PriorStores
    /\ prior = store
    /\ log = <<>>

\* a later call of load_data_to_sqlite on the same db_path
Reload ==
    /\ pc \in {"done", "aborted"}
    /\ Len(log) < MaxLoads
    /\ pc' = "transformed"
    /\ df' \in LoadFrames
    /\ \E db \in DbStates : src' = [src EXCEPT !.db = db]
    /\ prior' = store
    /\ UNCHANGED <<prev, store, log>>

NextLoad == Load \/ Reload

SpecLoad == InitLoad /\ [][NextLoad]_vars

-----------------------------------------------------------------------------
(* Properties *)

IsPrefix(a, b) == Len(a) <= Len(b) /\ \A i \in 1..Len(a) : a[i] = b[i]

\* C1: when an exchange-rate endpoint is configured, the frame extract returns
\* has an exchange_rate column on every row: the fetched CAD rate when the call
\* succeeds, the default 1.3 on every kind of failure (non-200 status included).
C1_RateOnEveryFailure ==
    (pc = "extracted" /\ src.fx.kind # "absent") =>
        /\ "exchange_rate" \in df.cols
        /\ \A i \in Indices(df) :
             df.rows[i]["exchange_rate"] =
                 Num(IF src.fx.kind = "ok" THEN src.fx.rate ELSE DEFAULT_EXCHANGE_RATE)

\* the bucket the specification gives a score: Low [300,600), Medium [600,750),
\* High [750,850]
HalfOpenBucket(v) ==
    IF v < 600 THEN Str("Low") ELSE IF v < 750 THEN Str("Medium") ELSE Str("High")

\* C2: after transform every integer credit_score in [300, 850] has the
\* category of its half-open bucket (300 Low, 600 Medium, 750 High), none is
\* left without a category.
C2_HalfOpenBuckets ==
    pc = "transformed" =>
        \A i \in Indices(df) :
            LET score == df.rows[i]["credit_score"]
            IN  (score.t = "num" /\ ScoreLo <= score.v /\ score.v <= ScoreHi) =>
                    df.rows[i]["credit_score_category"] = HalfOpenBucket(score.v)

\* C3: the frame validate returns holds no two records equal across all columns.
C3_NoDuplicatesAfterValidate ==
    pc = "validated" =>
        \A i, j \in Indices(df) : i < j => df.rows[i] # df.rows[j]

\* C4: a loan_status column present in the frame entering validate or
\* transform is present in the frame leaving it, whatever its inferred dtype.
C4_StatusNeverDropped ==
    (pc \in {"validated", "transformed"} /\ "loan_status" \in prev.cols) =>
        "loan_status" \in df.cols

\* the end-to-end scenario: the three-row file, no endpoint, a writable store
Scenario ==
    /\ src.file = [ok |-> TRUE, data |-> ScenarioFile]
    /\ src.loan.kind = "absent"
    /\ src.fx.kind = "absent"
    /\ src.db = "ok"

\* C5: in the end-to-end scenario the run completes all four stages and
\* persists 3 rows with exchange_rate 1.3, income_usd = income/1.3,
\* loan_status [0,1,1] and credit_score_category [Low, Medium, High].
C5_ScenarioPersisted ==
    (Scenario /\ pc \in {"done", "aborted"}) =>
        /\ pc = "done"
        /\ log = Stages
        /\ Len(store.rows) = 3
        /\ \A i \in 1..3 :
             /\ store.rows[i]["exchange_rate"] = Num(DEFAULT_EXCHANGE_RATE)
             /\ store.rows[i]["income_usd"].n * DEFAULT_EXCHANGE_RATE =
                    ScenarioFile.rows[i]["income"].v * 10 * store.rows[i]["income_usd"].d
        /\ [i \in 1..3 |-> store.rows[i]["loan_status"]] = <<Num(0), Num(1), Num(1)>>
        /\ [i \in 1..3 |-> store.rows[i]["credit_score_category"]] =
               <<Str("Low"), Str("Medium"), Str("High")>>

\* C6: a load that raises leaves the store exactly as it was before the call.
C6_FailedLoadChangesNothing ==
    (pc = "aborted" /\ log # <<>> /\ log[Len(log)] = "load") => store = prior

\* C7: after a successful load the table holds exactly the columns and rows of
\* the frame just loaded, however many loads went before, and the index on
\* credit_score exists on it.
C7_FullReplace ==
    pc = "done" =>
        /\ store.exists
        /\ store.cols = prev.cols
        /\ Len(store.rows) = Len(prev.rows)
        /\ \A i \in 1..Len(prev.rows) : \A c \in prev.cols :
             store.rows[i][c] =
                 IF prev.rows[i][c].t = "bool"
                   THEN Num(IF prev.rows[i][c].v THEN 1 ELSE 0)
                   ELSE prev.rows[i][c]
        /\ store.index

\* the same frame loaded a second time over its own rows
C7_Witness ==
    /\ pc = "done"
    /\ Len(log) >= 2
    /\ prior.exists /\ prior.index /\ prior # OldTable
    /\ prior.rows # <<>>
    /\ store = prior

\* the frame read from the file, or the empty frame when the read failed
FileFrame == IF src.file.ok THEN src.file.data ELSE EmptyFrame

\* C8: extract never raises; the frame it returns has no records when the file
\* read failed and no registry records were merged, and has exactly the file's
\* records when the registry call failed (or was not made).
C8_ExtractNeverRaises ==
    /\ ~(pc = "aborted" /\ log = <<"extract">>)
    /\ pc = "extracted" =>
         /\ (~src.file.ok /\ src.loan.kind # "ok") => df.rows = <<>>
         /\ src.loan.kind # "ok" =>
              /\ df.cols \ {"exchange_rate"} = FileFrame.cols
              /\ [i \in Indices(df) |-> [c \in FileFrame.cols |-> df.rows[i][c]]]
                     = FileFrame.rows

C8_Witness ==
    /\ pc = "extracted"
    /\ src.loan.kind = "throws"
    /\ src.fx.kind = "throws"
    /\ src.file.ok
    /\ df.rows # <<>>

\* the positions of the input whose record no earlier position repeats
KeptPositions == {i \in Indices(prev) : \A j \in 1..(i - 1) : prev.rows[j] # prev.rows[i]}

\* the input position the k-th output record comes from
Origin(k) == CHOOSE i \in KeptPositions : Cardinality({j \in KeptPositions : j <= i}) = k

\* the positions that give column c a value at the time of imputation
Valued(c) == {i \in KeptPositions : prev.rows[i][c].t = "num"}

\* the k-th smallest of the values of column c
Kth(c, k) ==
    CHOOSE x \in {prev.rows[i][c].v : i \in Valued(c)} :
        /\ Cardinality({i \in Valued(c) : prev.rows[i][c].v < x}) < k
        /\ Cardinality({i \in Valued(c) : prev.rows[i][c].v <= x}) >= k

\* twice the median of the values of column c
TwiceMedian(c) ==
    LET n == Cardinality(Valued(c))
    IN  Kth(c, (n + 1) \div 2) + Kth(c, n \div 2 + 1)

C10_LinearPipeline ==
    /\ IsPrefix(log, Stages)
    /\ pc = "start" <=> log = <<>>
    /\ pc = "extracted" => log = SubSeq(Stages, 1, 1)
    /\ pc = "validated" => log = SubSeq(Stages, 1, 2)
    /\ pc = "transformed" => log = SubSeq(Stages, 1, 3)
    /\ pc = "done" => log = Stages
    /\ (Len(log) >= 3 /\ ~(RequiredColumns \subseteq prev.cols)) =>
          /\ pc = "aborted"
          /\ log = SubSeq(Stages, 1, 3)
          /\ store = prior

\* a run that aborted in transform over a store that held a table
C10_Witness ==
    /\ pc = "aborted"
    /\ log = <<"extract", "validate", "transform">>
    /\ "credit_score" \notin df.cols
    /\ prior.exists
    /\ store = prior

=============================================================================
